---- MODULE Spec2Model ----
(***************************************************************************)
(* Job lifecycle engine of django-job-app: the status operations of        *)
(* AbstractJob, their notification wrapper, the persistence notifier and   *)
(* the run loop (jobapp/models/jobs.py, notifiers.py, exceptions.py), and   *)
(* the progress and stage/step mixins (jobapp/models/mixins.py).           *)
(***************************************************************************)
EXTENDS Integers, Sequences, FiniteSets, TLC

\* ------------------------------------------------------------------ bounds
\* Status operations called by act() during one run().
MaxActOps == 1
\* Status operations called directly on a job that is not running.
MaxOps == 2
\* Largest value of the clock read by now().
MaxNow == 1
\* Progress operations called directly on a job that is not running.
MaxProgressOps == 3
\* Stage and step contexts entered by act() during one run().
MaxCtx == 3
\* Depth of nested stage and step contexts.
MaxDepth == 2

\* ------------------------------------------------------------- enumerations
\* JobStatus member names (jobs.py 30-40).
JobStatus ==
    {"PENDING", "REQUEST_ACK", "RUNNING", "FAILED", "ERRORED", "SUCCESS",
     "SUCCESS_WITH_WARNING", "CANCEL_REQUESTED", "CANCELED", "PAUSED"}

\* getattr(UiStatus, name, None) finds nothing.
NoUi == "<None>"

\* UiStatus: member name -> display text (jobs.py 43-52).  PAUSED has no member.
UiStatus(name) ==
    CASE name = "PENDING" -> "Pending"
      [] name = "REQUEST_ACK" -> "Acknowledged"
      [] name = "RUNNING" -> "Running"
      [] name = "FAILED" -> "Failed"
      [] name = "ERRORED" -> "Errored"
      [] name = "SUCCESS" -> "Success"
      [] name = "SUCCESS_WITH_WARNING" -> "Success with warning(s)"
      [] name = "CANCEL_REQUESTED" -> "Cancel requested"
      [] name = "CANCELED" -> "Canceled"
      [] OTHER -> NoUi

FINAL_STATUSES == {"FAILED", "ERRORED", "SUCCESS", "SUCCESS_WITH_WARNING", "CANCELED"}
INTERMEDIATE_STATUSES == {"RUNNING", "CANCEL_REQUESTED", "REQUEST_ACK"}
GOOD_STATUSES == {"SUCCESS", "SUCCESS_WITH_WARNING"}
BAD_STATUSES == {"FAILED", "ERRORED"}

\* Exception classes (exceptions.py) and the built-in ones the code can raise.
JobFailedError == "JobFailedError"
JobStageFailedError == "JobStageFailedError"
JobStepFailedError == "JobStepFailedError"
JobCanceledError == "JobCanceledError"
JobStateError == "JobStateError"
NoExc == "<none>"

\* issubclass(cls, JobStateError) (exceptions.py 1-18).
IsJobStateError(cls) ==
    cls \in {JobStateError, JobFailedError, JobStageFailedError,
             JobStepFailedError, JobCanceledError}

\* issubclass(cls, Exception): KeyboardInterrupt, SystemExit and GeneratorExit
\* derive from BaseException only, every other class used here from Exception.
BaseExceptions == {"KeyboardInterrupt", "SystemExit", "GeneratorExit"}
IsException(cls) == cls \notin BaseExceptions

\* What act() of a concrete job may raise: the state errors, the base act()'s
\* NotImplementedError, any other Exception, and a BaseException that is not an
\* Exception (Ctrl-C, sys.exit(), a generator being closed).
ActExceptions ==
    {JobFailedError, JobStageFailedError, JobStepFailedError, JobCanceledError,
     JobStateError, "NotImplementedError", "Exception"} \cup BaseExceptions

\* The status operations decorated with notify_update (jobs.py 118-152).
StatusOps ==
    {"acknowledge", "running", "fail", "success", "error", "cancel",
     "success_with_warning", "request_cancel"}

DbUpdateNotifier == "DbUpdateNotifier"
\* The _notifiers attribute was never assigned.
Unset == [set |-> FALSE, list |-> <<>>]
\* The notifiers argument of the constructor: None, or a list.
NotifierArgs ==
    {[none |-> TRUE, list |-> <<>>],
     [none |-> FALSE, list |-> <<>>],
     [none |-> FALSE, list |-> <<"Observer">>],
     [none |-> FALSE, list |-> <<"Observer", DbUpdateNotifier>>]}

\* --------------------------------------------------------------------- state
VARIABLES
    status,         \* job._status (member name)
    ui_status,      \* job._ui_status
    updated_at,     \* job.updated_at
    notifiers,      \* job._notifiers: Unset, or [set |-> TRUE, list |-> the notifiers]
    db,             \* the stored row of the job
    now,            \* the clock
    pc,             \* position of run(): idle, check, act, classify, hooks, done
    exc,            \* exception in flight inside run(): [cls, hasArgs]
    pending,        \* exception raised by an except clause of run()
    escaped,        \* exception that left run()
    actOutcome,     \* notrun, running, returned, raised
    actExc,         \* class of the exception act() raised
    statusAtActEnd, \* status when act() returned or raised
    cancelBeforeAck,\* the stored status was CANCEL_REQUESTED when run() started
    runStart,       \* what had been notified and called when run() started
    actCalls, onSuccessCalls, onFailureCalls, finalizeCalls,
    hookRaised,     \* on_success or on_failure raised
    hookExc,        \* exception that left _process_post_job_hooks (NoExc: none)
    opCalls,        \* invocations of notify_update-wrapped operations
    opRaised,       \* the last wrapped operation raised
    opStatus,       \* status when the body of the last wrapped operation ended
    dispatches,     \* invocations of job.notify()
    notified,       \* notifier.notify(job) calls: <<notifier, status seen>>
    ui_explicit,    \* the last update_status was given a ui_status
    nOps,           \* operations called directly or by act()
    notifiersArg,   \* the notifiers argument the job was constructed with
    ttl,            \* job.ttl (seconds)
    progress,       \* _progress_total_units, _progress_done_units, _percent_progress
    lastSet,        \* the last percent_progress assignment and its outcome
    unitsAdded,     \* sum of the units passed to add_progress_done_units
    negUnits,       \* a negative unit count was passed to add_progress_*_units
    tracker,        \* current_stage, current_step and their data
    stack,          \* the stage and step contexts act() is inside, outermost first
    flying,         \* exception propagating inside act()
    lastExit,       \* the last context exit: what it handled, called and raised
    stepFailed,     \* step whose block raised JobStepFailedError inside a stage
    stepsCompleted, \* step contexts whose block completed normally
    nCtx,           \* contexts entered
    endCalls,       \* invocations of on_stage_end and on_step_end
    diagnostics,    \* diagnostic entries recorded for the job
    refreshes,      \* invocations of refresh() by run()
    other           \* the job instance of another process: how far it is, its
                    \* fields, and whether act() was executing when it saved

vars ==
    <<status, ui_status, updated_at, notifiers, db, now, pc, exc, pending, escaped,
      actOutcome, actExc, statusAtActEnd, cancelBeforeAck, runStart, actCalls, onSuccessCalls,
      onFailureCalls, finalizeCalls, hookRaised, hookExc, opCalls, opRaised,
      opStatus, dispatches, notified, ui_explicit, nOps, notifiersArg, ttl, progress,
      lastSet, unitsAdded, negUnits, tracker, stack, flying, lastExit, stepFailed,
      stepsCompleted, nCtx, endCalls, diagnostics, refreshes, other>>

runVars ==
    <<pc, exc, pending, escaped, actOutcome, actExc, statusAtActEnd, cancelBeforeAck, runStart,
      actCalls, onSuccessCalls, onFailureCalls, finalizeCalls, hookRaised,
      hookExc>>

\* What the constructor fixes.
ctorVars == <<notifiers, notifiersArg, ttl>>
\* What is recorded about the cancellation check of run().
envVars == <<refreshes, other>>
\* The stage/step tracker of StepJobMixin and what is recorded about it.
stepVars ==
    <<tracker, stack, flying, lastExit, stepFailed, stepsCompleted, nCtx, endCalls,
      diagnostics>>
\* What is recorded about the progress operations.
progVars == <<lastSet, unitsAdded, negUnits>>

\* The in-memory job as a record.
Job == [status |-> status, ui_status |-> ui_status, updated_at |-> updated_at,
        ui_explicit |-> ui_explicit, progress |-> progress]

\* Field defaults of AbstractProgressJobMixin (mixins.py 10-12); the percent
\* override is null.
NoProgress == [total |-> 0, done |-> 0, percent |-> [set |-> FALSE, value |-> 0]]

\* A DateTimeField value: None until it is assigned (jobs.py 97-98: auto_now_add
\* fields have no default), else a time of the clock.
NoTime == [set |-> FALSE, at |-> 0]
At(t) == [set |-> TRUE, at |-> t]

NoRow == [exists |-> FALSE, status |-> "PENDING", ui_status |-> "", updated_at |-> NoTime,
          ui_explicit |-> FALSE, progress |-> NoProgress, created_at |-> 0]
Raise(cls, hasArgs) == [cls |-> cls, hasArgs |-> hasArgs]

\* The other process has no instance of the job.
NoOther ==
    [pc |-> "none", duringAct |-> FALSE,
     job |-> [status |-> "PENDING", ui_status |-> "", updated_at |-> NoTime,
              ui_explicit |-> FALSE, progress |-> NoProgress]]
Nothing == Raise(NoExc, FALSE)

\* ------------------------------------------------------ field operations
\* touch (jobs.py 169-170).
touch(j) == [j EXCEPT !.updated_at = At(now)]

\* update_ui_status (jobs.py 165-167).
update_ui_status(j, ui) == touch([j EXCEPT !.ui_status = ui])

\* update_status without its closing touch(): an explicit ui_status leaves
\* updated_at alone.
update_status_no_touch(j, s, ui) ==
    LET j1 == [j EXCEPT !.status = s, !.ui_explicit = (ui # NoUi)]
    IN IF ui # NoUi
       THEN [j1 EXCEPT !.ui_status = ui]
       ELSE LET mapped_status == UiStatus(s)
            IN IF mapped_status # NoUi
               THEN update_ui_status(j1, mapped_status)
               ELSE j1

\* update_status (jobs.py 154-163); ui = NoUi is the omitted argument.
update_status(j, s, ui) ==
    LET j1 == [j EXCEPT !.status = s, !.ui_explicit = (ui # NoUi)]
        j2 == IF ui # NoUi
              THEN [j1 EXCEPT !.ui_status = ui]
              ELSE LET mapped_status == UiStatus(s)
                   IN IF mapped_status # NoUi
                      THEN update_ui_status(j1, mapped_status)
                      ELSE j1
    IN touch(j2)

\* ------------------------------------------------------- status operations
\* Bodies of the decorated operations: the job after the body, and what it raised.
Ret(j, e) == [job |-> j, raised |-> e]

\* acknowledge stores RUNNING at once, without the REQUEST_ACK status.
acknowledge_sets_running(j) == Ret(update_status(j, "RUNNING", NoUi), Nothing)

\* acknowledge (jobs.py 118-120).
acknowledge(j) == Ret(update_status(j, "REQUEST_ACK", NoUi), Nothing)

\* running (jobs.py 122-124).
running(j) == Ret(update_status(j, "RUNNING", NoUi), Nothing)

\* fail (jobs.py 126-130).
fail(j, raise_error) ==
    Ret(update_status(j, "FAILED", NoUi),
        IF raise_error THEN Raise(JobFailedError, TRUE) ELSE Nothing)

\* success (jobs.py 132-134).
success(j) == Ret(update_status(j, "SUCCESS", NoUi), Nothing)

\* error (jobs.py 136-138).
error(j) == Ret(update_status(j, "ERRORED", NoUi), Nothing)

\* cancel (jobs.py 140-144): the status it stores is FAILED.
cancel(j, raise_error) ==
    Ret(update_status(j, "FAILED", NoUi),
        IF raise_error THEN Raise(JobCanceledError, TRUE) ELSE Nothing)

\* success_with_warning (jobs.py 146-148).
success_with_warning(j) == Ret(update_status(j, "SUCCESS_WITH_WARNING", NoUi), Nothing)

\* request_cancel (jobs.py 150-152): JobStatus has no member REQUEST_CANCEL, so
\* the attribute lookup raises before update_status is called.
request_cancel(j) ==
    IF "REQUEST_CANCEL" \in JobStatus
    THEN Ret(update_status(j, "REQUEST_CANCEL", NoUi), Nothing)
    ELSE Ret(j, Raise("AttributeError", TRUE))

OpBody(j, op, raise_error) ==
    CASE op = "acknowledge" -> acknowledge(j)
      [] op = "running" -> running(j)
      [] op = "fail" -> fail(j, raise_error)
      [] op = "success" -> success(j)
      [] op = "error" -> error(j)
      [] op = "cancel" -> cancel(j, raise_error)
      [] op = "success_with_warning" -> success_with_warning(j)
      [] op = "request_cancel" -> request_cancel(j)

\* ------------------------------------------------------------ notification
\* Model.save() as DbUpdateNotifier uses it (notifiers.py 9-12): every field is
\* written; auto_now_add stamps created_at and updated_at when the row is inserted.
save(j, d) ==
    [exists |-> TRUE, status |-> j.status, ui_status |-> j.ui_status,
     updated_at |-> IF d.exists THEN j.updated_at ELSE At(now),
     ui_explicit |-> j.ui_explicit, progress |-> j.progress,
     created_at |-> IF d.exists THEN d.created_at ELSE now]

\* The instance after its save(): an insert assigns the auto_now_add stamp to
\* the instance's updated_at too (jobs.py 97-98); an update leaves it alone.
auto_now_add(j, d) == IF d.exists THEN j ELSE [j EXCEPT !.updated_at = At(now)]

\* One notifier's notify(job): the persisting notifier saves, any other observes.
NotifierEffect(n, j, d) == IF n = DbUpdateNotifier THEN save(j, d) ELSE d
\* The job after one notifier's notify(job).
NotifierJob(n, j, d) == IF n = DbUpdateNotifier THEN auto_now_add(j, d) ELSE j

\* The loop of AbstractJob.notify (jobs.py 176-180) from position i on; acc holds
\* the job, the row, the calls made and the exception so far.
RECURSIVE NotifyFrom(_, _, _)
NotifyFrom(i, list, acc) ==
    IF i > Len(list)
    THEN acc
    ELSE NotifyFrom(i + 1, list,
            [job |-> NotifierJob(list[i], acc.job, acc.db),
             db |-> NotifierEffect(list[i], acc.job, acc.db),
             calls |-> Append(acc.calls, <<list[i], acc.job.status>>),
             raised |-> acc.raised])

\* AbstractJob.notify (jobs.py 172-180): the notifiers property raises
\* AttributeError when _notifiers was never assigned.
notify(j, d) ==
    IF ~notifiers.set
    THEN [job |-> j, db |-> d, calls |-> <<>>, raised |-> Raise("AttributeError", TRUE)]
    ELSE NotifyFrom(1, notifiers.list,
                    [job |-> j, db |-> d, calls |-> <<>>, raised |-> Nothing])

\* Outcome of a wrapped call: the job, the row, the notifier calls made, the
\* exception leaving the wrapper, and the number of notify() dispatches.
Outcome(j, d, calls, raised, n) ==
    [job |-> j, db |-> d, calls |-> calls, raised |-> raised, dispatched |-> n]

\* A wrapper without the finally clause: a raising body skips the dispatch.
notify_update_no_finally(r) ==
    IF r.raised.cls # NoExc
    THEN Outcome(r.job, db, <<>>, r.raised, 0)
    ELSE LET n == notify(r.job, db)
         IN Outcome(n.job, n.db, n.calls, n.raised, 1)

\* notify_update (jobs.py 74-81): try: return f(...) finally: self.notify().
\* An exception raised by notify() replaces the one raised by the body.
notify_update(r) ==
    LET n == notify(r.job, db)
    IN Outcome(n.job, n.db, n.calls,
               IF n.raised.cls # NoExc THEN n.raised ELSE r.raised, 1)

\* A decorated operation called on job j.
CallOn(j, op, raise_error) == notify_update(OpBody(j, op, raise_error))
Call(op, raise_error) == CallOn(Job, op, raise_error)

\* The state after a wrapped call with outcome o.
Apply(o) ==
    /\ status' = o.job.status
    /\ ui_status' = o.job.ui_status
    /\ updated_at' = o.job.updated_at
    /\ ui_explicit' = o.job.ui_explicit
    /\ progress' = o.job.progress
    /\ db' = o.db
    /\ notified' = notified \o o.calls
    /\ dispatches' = dispatches + o.dispatched
    /\ opCalls' = opCalls + 1
    /\ opRaised' = (o.raised.cls # NoExc)
    /\ opStatus' = o.job.status

\* No wrapped call in this step.
NoCall ==
    UNCHANGED <<status, ui_status, updated_at, ui_explicit, progress, db, notified,
                dispatches, opCalls, opRaised, opStatus>>

\* ------------------------------------------------------------ construction
\* AbstractJob.__init__ (jobs.py 101-104): _notifiers is assigned only when the
\* argument is None or empty.
AbstractJobInit(arg) ==
    IF arg.none \/ arg.list = <<>>
    THEN [set |-> TRUE, list |-> <<DbUpdateNotifier>>]
    ELSE Unset

\* DEFAULT_TTL_THRESHOLD (jobs.py 86): three days, in seconds.
DEFAULT_TTL_THRESHOLD == 259200

\* The ttl values a job of SpecExpiry is constructed with: small enough for the
\* job to expire while the clock runs (Init constructs with the default).
TtlArgs == {0, 1}

\* StepJobMixin.__init__ (mixins.py 50-54).
None == "None"
NoKey == "<no error key>"
NoData == [isNone |-> TRUE, error |-> NoKey]
StepJobMixinInit ==
    [current_stage |-> None, current_step |-> None,
     current_stage_data |-> NoData, current_step_data |-> NoData]

\* No context has exited yet.
NoExit ==
    [kind |-> None, name |-> None, inExc |-> Nothing, recorded |-> NoKey,
     calls |-> <<>>, outExc |-> Nothing]
\* No step has raised JobStepFailedError yet.
NoStepFailed == [step |-> None, inStage |-> FALSE, hasArgs |-> FALSE]
\* percent_progress has not been assigned yet.
NoSet ==
    [called |-> FALSE, value |-> 0, raised |-> FALSE, before |-> NoProgress.percent,
     since |-> 0]

\* A job constructed with ttl t.  Field defaults (jobs.py 91-99, mixins.py 10-12):
\* status PENDING, ui_status the empty string of a CharField without default,
\* progress at zero, no row stored yet.
InitJob(t, arg, ns) ==
    /\ notifiersArg = arg
    /\ notifiers = ns
    /\ ttl = t
    /\ progress = NoProgress
    /\ lastSet = NoSet
    /\ unitsAdded = 0
    /\ negUnits = FALSE
    /\ tracker = StepJobMixinInit
    /\ stack = <<>>
    /\ flying = Nothing
    /\ lastExit = NoExit
    /\ stepFailed = NoStepFailed
    /\ stepsCompleted = 0
    /\ nCtx = 0
    /\ endCalls = 0
    /\ diagnostics = {}
    /\ refreshes = 0
    /\ other = NoOther
    /\ status = "PENDING"
    /\ ui_status = ""
    /\ updated_at = NoTime
    /\ ui_explicit = FALSE
    /\ db = NoRow
    /\ now = 0
    /\ pc = "idle"
    /\ exc = Nothing
    /\ pending = NoExc
    /\ escaped = NoExc
    /\ actOutcome = "notrun"
    /\ actExc = NoExc
    /\ statusAtActEnd = "PENDING"
    /\ cancelBeforeAck = FALSE
    /\ runStart = [notified |-> 0, nOps |-> 0]
    /\ actCalls = 0
    /\ onSuccessCalls = 0
    /\ onFailureCalls = 0
    /\ finalizeCalls = 0
    /\ hookRaised = FALSE
    /\ hookExc = NoExc
    /\ opCalls = 0
    /\ opRaised = FALSE
    /\ opStatus = "PENDING"
    /\ dispatches = 0
    /\ notified = <<>>
    /\ nOps = 0

\* AbstractJob.__init__ (jobs.py 101-104) with ttl t and any notifiers argument.
InitWith(t) ==
    \E arg \in NotifierArgs : InitJob(t, arg, AbstractJobInit(arg))

\* A job constructed with the default ttl.
Init == InitWith(DEFAULT_TTL_THRESHOLD)

\* The notifier tuples a subclass registers by assigning _notifiers itself: the
\* persisting notifier and an observer, in either order.
RegisteredNotifiers ==
    {<<"Observer", DbUpdateNotifier>>, <<DbUpdateNotifier, "Observer">>}

\* A job of a subclass that assigns _notifiers in its own __init__, the one way to
\* register several notifiers: AbstractJob.__init__ stores only the default one,
\* and the notifiers property (jobs.py 172-174) returns whatever _notifiers holds.
InitRegistered ==
    \E list \in RegisteredNotifiers :
        InitJob(DEFAULT_TTL_THRESHOLD, [none |-> TRUE, list |-> <<>>],
                [set |-> TRUE, list |-> list])

\* A job constructed with any of the ttl values.
InitTtl == \E t \in TtlArgs : InitWith(t)

\* ------------------------------------------------------------- environment
\* Time passes (now(), jobs.py 26-27) until run() has ended.
Tick ==
    /\ pc # "done"
    /\ now < MaxNow
    /\ now' = now + 1
    /\ UNCHANGED <<status, ui_status, updated_at, ui_explicit, progress, ctorVars, envVars, stepVars, progVars, db,
                   notified, dispatches, opCalls, opRaised, opStatus, nOps>>
    /\ UNCHANGED runVars

\* The caller persists the job before handing it to a worker (job.save()).
SaveJob ==
    /\ pc = "idle"
    /\ db' = save(Job, db)
    /\ updated_at' = auto_now_add(Job, db).updated_at
    /\ UNCHANGED <<status, ui_status, ui_explicit, progress, ctorVars, envVars, stepVars, progVars, now, notified,
                   dispatches, opCalls, opRaised, opStatus, nOps>>
    /\ UNCHANGED runVars

\* refresh (jobs.py 210-211): every field is read from the stored row.
refresh(j, d) ==
    [status |-> d.status, ui_status |-> d.ui_status, updated_at |-> d.updated_at,
     ui_explicit |-> d.ui_explicit, progress |-> d.progress]

\* Another process asks for the job to be canceled, once, in three steps of its own
\* (request_cancel raises, jobs.py 150-152, so it sets the status itself).  It
\* loads the stored row into an instance of its own.
ExternalLoad ==
    /\ other.pc = "none"
    /\ db.exists
    /\ other' = [other EXCEPT !.pc = "loaded", !.job = refresh(other.job, db)]
    /\ UNCHANGED <<status, ui_status, updated_at, ui_explicit, progress, ctorVars,
                   refreshes, stepVars, progVars, now, db, notified,
                   dispatches, opCalls, opRaised, opStatus, nOps>>
    /\ UNCHANGED runVars

\* The other process calls update_status with CANCEL_REQUESTED on its instance
\* (jobs.py 154-163, which does not look at the status the instance has).
ExternalUpdateStatus ==
    /\ other.pc = "loaded"
    /\ other' = [other EXCEPT !.pc = "updated",
                               !.job = update_status(other.job, "CANCEL_REQUESTED", NoUi)]
    /\ UNCHANGED <<status, ui_status, updated_at, ui_explicit, progress, ctorVars,
                   refreshes, stepVars, progVars, now, db, notified,
                   dispatches, opCalls, opRaised, opStatus, nOps>>
    /\ UNCHANGED runVars

\* The other process saves its instance: every field it holds is written over
\* the stored row, whatever was stored since it loaded.  It asks once.
ExternalSave ==
    /\ other.pc = "updated"
    /\ db' = save(other.job, db)
    /\ other' = [NoOther EXCEPT !.pc = "saved", !.duringAct = (pc = "act")]
    /\ UNCHANGED <<status, ui_status, updated_at, ui_explicit, progress, ctorVars,
                   refreshes, stepVars, progVars, now, notified, dispatches, opCalls,
                   opRaised, opStatus, nOps>>
    /\ UNCHANGED runVars

\* --------------------------------------------- operations outside the loop
\* act() ends by raising e.
ActEnds(e, st) ==
    /\ pc' = "classify"
    /\ exc' = e
    /\ actOutcome' = IF e.cls = NoExc THEN "returned" ELSE "raised"
    /\ actExc' = e.cls
    /\ statusAtActEnd' = st
    /\ UNCHANGED <<pending, escaped, cancelBeforeAck, runStart, actCalls, onSuccessCalls,
                   onFailureCalls, finalizeCalls, hookRaised, hookExc>>

\* The ui_status arguments tried with update_status: omitted, or a UiStatus text.
UiArgs == {NoUi, "Failed"}

\* update_status as if it were decorated with notify_update: the call is followed
\* by a dispatch to the notifiers.
ApplyUpdateStatus_notifies(s, ui) ==
    /\ Apply(notify_update(Ret(update_status(Job, s, ui), Nothing)))
    /\ UNCHANGED <<ctorVars, envVars, stepVars, progVars, now>>

\* The state after update_status is called directly (jobs.py 154-163): the fields
\* change, nothing is notified.
ApplyUpdateStatus(s, ui) ==
    /\ LET j == update_status(Job, s, ui)
       IN /\ status' = j.status
          /\ ui_status' = j.ui_status
          /\ updated_at' = j.updated_at
          /\ ui_explicit' = j.ui_explicit
          /\ progress' = j.progress
    /\ UNCHANGED <<ctorVars, envVars, stepVars, progVars, now, db, notified, dispatches, opCalls, opRaised,
                   opStatus>>

\* The job's owner calls a decorated status operation on a job that is not
\* running.
StatusOp(op, raise_error) ==
    /\ pc = "idle"
    /\ nOps < MaxOps
    /\ nOps' = nOps + 1
    /\ Apply(Call(op, raise_error))
    /\ UNCHANGED <<ctorVars, envVars, stepVars, progVars, now>>
    /\ UNCHANGED runVars

\* The job's owner calls update_status on a job that is not running.
UpdateStatus(s, ui) ==
    /\ pc = "idle"
    /\ nOps < MaxOps
    /\ nOps' = nOps + 1
    /\ ApplyUpdateStatus(s, ui)
    /\ UNCHANGED runVars

\* The state after a method that changes fields of the job in memory only
\* (touch, update_ui_status, refresh): nothing is stored, nothing is notified.
ApplyFields(j) ==
    /\ status' = j.status
    /\ ui_status' = j.ui_status
    /\ updated_at' = j.updated_at
    /\ ui_explicit' = j.ui_explicit
    /\ progress' = j.progress
    /\ UNCHANGED <<ctorVars, envVars, stepVars, progVars, now, db, notified, dispatches, opCalls,
                   opRaised, opStatus>>

\* The texts tried with update_ui_status.
UiStatusArgs == {UiStatus("RUNNING"), UiStatus("FAILED")}

\* The job's owner calls touch() (jobs.py 169-170) on a job that is not running.
Touch ==
    /\ pc = "idle"
    /\ nOps < MaxOps
    /\ nOps' = nOps + 1
    /\ ApplyFields(touch(Job))
    /\ UNCHANGED runVars

\* The job's owner calls update_ui_status (jobs.py 165-167) on a job that is not
\* running.
UpdateUiStatus(ui) ==
    /\ pc = "idle"
    /\ nOps < MaxOps
    /\ nOps' = nOps + 1
    /\ ApplyFields(update_ui_status(Job, ui))
    /\ UNCHANGED runVars

\* The job's owner calls refresh() or reads is_cancel_requested, which calls it
\* before comparing the status (jobs.py 204-211), on a job that is not running:
\* the stored row is loaded; without a row refresh_from_db() raises DoesNotExist
\* and the job is as it was.
Refresh ==
    /\ pc = "idle"
    /\ nOps < MaxOps
    /\ nOps' = nOps + 1
    /\ ApplyFields(IF db.exists THEN refresh(Job, db) ELSE Job)
    /\ UNCHANGED runVars

\* The job's owner calls notify() (jobs.py 172-180) on a job that is not running:
\* the notifiers are called, the persisting one saves, no field but the stamp of
\* an insert changes.
Notify ==
    /\ pc = "idle"
    /\ nOps < MaxOps
    /\ nOps' = nOps + 1
    /\ LET n == notify(Job, db)
       IN /\ updated_at' = n.job.updated_at
          /\ db' = n.db
          /\ notified' = notified \o n.calls
          /\ dispatches' = dispatches + 1
    /\ UNCHANGED <<status, ui_status, ui_explicit, progress, opCalls, opRaised, opStatus,
                   ctorVars, envVars, stepVars, progVars, now>>
    /\ UNCHANGED runVars

\* act() calls a decorated status operation; if it raises, the exception ends
\* act().
ActStatusOp(op, raise_error) ==
    /\ pc = "act"
    /\ stack = <<>>
    /\ flying = Nothing
    /\ nOps < MaxActOps
    /\ nOps' = nOps + 1
    /\ LET o == Call(op, raise_error)
       IN /\ Apply(o)
          /\ IF o.raised.cls # NoExc
             THEN ActEnds(o.raised, o.job.status)
             ELSE UNCHANGED runVars
    /\ UNCHANGED <<ctorVars, envVars, stepVars, progVars, now>>

\* act() calls update_status.
ActUpdateStatus(s, ui) ==
    /\ pc = "act"
    /\ stack = <<>>
    /\ flying = Nothing
    /\ nOps < MaxActOps
    /\ nOps' = nOps + 1
    /\ ApplyUpdateStatus(s, ui)
    /\ UNCHANGED runVars

\* act() calls touch() (jobs.py 169-170).
ActTouch ==
    /\ pc = "act"
    /\ stack = <<>>
    /\ flying = Nothing
    /\ nOps < MaxActOps
    /\ nOps' = nOps + 1
    /\ ApplyFields(touch(Job))
    /\ UNCHANGED runVars

\* act() calls update_ui_status (jobs.py 165-167).
ActUpdateUiStatus(ui) ==
    /\ pc = "act"
    /\ stack = <<>>
    /\ flying = Nothing
    /\ nOps < MaxActOps
    /\ nOps' = nOps + 1
    /\ ApplyFields(update_ui_status(Job, ui))
    /\ UNCHANGED runVars

\* act() calls refresh() or reads is_cancel_requested (jobs.py 204-211): the
\* stored row is loaded; without a row the DoesNotExist of refresh_from_db() ends
\* act().
ActRefresh ==
    /\ pc = "act"
    /\ stack = <<>>
    /\ flying = Nothing
    /\ nOps < MaxActOps
    /\ nOps' = nOps + 1
    /\ IF db.exists
       THEN /\ ApplyFields(refresh(Job, db))
            /\ UNCHANGED runVars
       ELSE /\ ActEnds(Raise("DoesNotExist", TRUE), status)
            /\ NoCall
            /\ UNCHANGED <<ctorVars, envVars, stepVars, progVars, now>>

\* ---------------------------------------------------------------- run()
\* What a clause of run() does: call a status operation, raise, or nothing.
Do(op) == [op |-> op, raises |-> NoExc]
Throws(cls) == [op |-> "none", raises |-> cls]

\* The else clause calls success() whatever the status is.
run_except_always_success(e, st) ==
    CASE e.cls \in {JobFailedError, JobStageFailedError, JobStepFailedError} ->
            IF st # "FAILED"
            THEN (IF e.hasArgs THEN Do("fail") ELSE Throws("IndexError"))
            ELSE Do("none")
      [] e.cls = JobCanceledError ->
            IF st # "CANCELED"
            THEN (IF e.hasArgs THEN Do("cancel") ELSE Throws("IndexError"))
            ELSE Do("none")
      [] e.cls = NoExc -> Do("success")
      [] ~IsException(e.cls) -> Throws(e.cls)
      [] OTHER -> Do("error")

\* run() without its else clause: a returning act() leaves the status as it is.
run_except_no_else(e, st) ==
    CASE e.cls \in {JobFailedError, JobStageFailedError, JobStepFailedError} ->
            IF st # "FAILED"
            THEN (IF e.hasArgs THEN Do("fail") ELSE Throws("IndexError"))
            ELSE Do("none")
      [] e.cls = JobCanceledError ->
            IF st # "CANCELED"
            THEN (IF e.hasArgs THEN Do("cancel") ELSE Throws("IndexError"))
            ELSE Do("none")
      [] e.cls = NoExc -> Do("none")
      [] ~IsException(e.cls) -> Throws(e.cls)
      [] OTHER -> Do("error")

\* The clauses look at the stored row first and cancel the job when a cancel
\* request is stored.
run_except_rechecks_cancel(e, st) ==
    IF db.exists /\ db.status = "CANCEL_REQUESTED"
    THEN Do("cancel")
    ELSE CASE e.cls \in {JobFailedError, JobStageFailedError, JobStepFailedError} ->
                 IF st # "FAILED"
                 THEN (IF e.hasArgs THEN Do("fail") ELSE Throws("IndexError"))
                 ELSE Do("none")
           [] e.cls = JobCanceledError ->
                 IF st # "CANCELED"
                 THEN (IF e.hasArgs THEN Do("cancel") ELSE Throws("IndexError"))
                 ELSE Do("none")
           [] e.cls = NoExc ->
                 IF st \notin FINAL_STATUSES THEN Do("success") ELSE Do("none")
           [] ~IsException(e.cls) -> Throws(e.cls)
           [] OTHER -> Do("error")

\* The except and else clauses of run() (jobs.py 239-250) for the exception e
\* leaving the try body (NoExc: none) with the job in status st.  e.args[0] of an
\* exception raised without arguments is an IndexError.  No clause catches a
\* BaseException that is not an Exception: it goes on through the finally clause.
run_except(e, st) ==
    CASE e.cls \in {JobFailedError, JobStageFailedError, JobStepFailedError} ->
            IF st # "FAILED"
            THEN (IF e.hasArgs THEN Do("fail") ELSE Throws("IndexError"))
            ELSE Do("none")
      [] e.cls = JobCanceledError ->
            IF st # "CANCELED"
            THEN (IF e.hasArgs THEN Do("cancel") ELSE Throws("IndexError"))
            ELSE Do("none")
      [] e.cls = NoExc ->
            IF st \notin FINAL_STATUSES THEN Do("success") ELSE Do("none")
      [] ~IsException(e.cls) -> Throws(e.cls)
      [] OTHER -> Do("error")

\* The except clause around the hook dispatch (jobs.py 252-256) for the exception
\* e leaving _process_post_job_hooks (NoExc: none): `except Exception` demotes the
\* job, and a BaseException that is not an Exception goes on out of run().
run_finally(e) ==
    CASE e = NoExc -> Do("none")
      [] e # NoExc /\ IsException(e) -> Do("success_with_warning")
      [] OTHER -> Throws(e)

\* The state after clause c: the operation it calls, wrapped, or nothing.
ApplyClause(c) ==
    IF c.op = "none" THEN NoCall ELSE Apply(Call(c.op, FALSE))

\* What leaves clause c: what it raises, or what the operation it calls raises.
ClauseRaises(c) ==
    IF c.op = "none" THEN c.raises ELSE Call(c.op, FALSE).raised.cls

\* run(): self.acknowledge() (jobs.py 232), outside the try statement.
RunAck ==
    /\ pc = "idle"
    /\ LET o == Call("acknowledge", FALSE)
       IN /\ Apply(o)
          /\ pc' = IF o.raised.cls = NoExc THEN "check" ELSE "done"
          /\ escaped' = o.raised.cls
    /\ cancelBeforeAck' = (db.exists /\ db.status = "CANCEL_REQUESTED")
    /\ runStart' = [notified |-> Len(notified), nOps |-> nOps]
    /\ UNCHANGED <<ctorVars, envVars, stepVars, progVars, now, nOps, exc, pending, actOutcome, actExc,
                   statusAtActEnd, actCalls, onSuccessCalls, onFailureCalls,
                   finalizeCalls, hookRaised, hookExc>>

\* run(): the read of self.is_cancel_requested (jobs.py 234, 204-211):
\* refresh_from_db() loads the stored row into the job; a missing row raises
\* DoesNotExist inside the try statement.
RunRefresh ==
    /\ pc = "check"
    /\ IF ~db.exists
       THEN /\ pc' = "classify"
            /\ exc' = Raise("DoesNotExist", TRUE)
            /\ UNCHANGED <<status, ui_status, updated_at, ui_explicit, progress>>
       ELSE LET j == refresh(Job, db)
            IN /\ status' = j.status
               /\ ui_status' = j.ui_status
               /\ updated_at' = j.updated_at
               /\ ui_explicit' = j.ui_explicit
               /\ progress' = j.progress
               /\ pc' = "checked"
               /\ exc' = exc
    /\ refreshes' = refreshes + 1
    /\ UNCHANGED other
    /\ UNCHANGED <<db, notified, dispatches, opCalls, opRaised, opStatus>>
    /\ UNCHANGED <<ctorVars, stepVars, progVars, now, nOps, pending,
                   escaped, actExc, statusAtActEnd, actCalls, actOutcome,
                   cancelBeforeAck, runStart, onSuccessCalls, onFailureCalls, finalizeCalls,
                   hookRaised, hookExc>>

\* run(): the status just loaded is compared with CANCEL_REQUESTED (jobs.py 208);
\* if self.is_cancel_requested: self.cancel() else: self.running(), and act() is
\* entered (jobs.py 234-238). The store is not read again: a request stored after
\* the refresh is overwritten by the save of running().
RunCheck ==
    /\ pc = "checked"
    /\ LET is_cancel_requested == status = "CANCEL_REQUESTED"
           o == IF is_cancel_requested
                THEN Call("cancel", TRUE)
                ELSE Call("running", FALSE)
       IN /\ Apply(o)
          /\ exc' = o.raised
          /\ pc' = IF o.raised.cls = NoExc THEN "act" ELSE "classify"
          /\ actCalls' = IF o.raised.cls = NoExc THEN actCalls + 1 ELSE actCalls
          /\ actOutcome' = IF o.raised.cls = NoExc THEN "running" ELSE actOutcome
    /\ UNCHANGED <<ctorVars, envVars, stepVars, progVars, now, nOps, pending,
                   escaped, actExc, statusAtActEnd,
                   cancelBeforeAck, runStart, onSuccessCalls, onFailureCalls, finalizeCalls,
                   hookRaised, hookExc>>

\* act() returns (jobs.py 238).
ActReturn ==
    /\ pc = "act"
    /\ stack = <<>>
    /\ flying = Nothing
    /\ ActEnds(Nothing, status)
    /\ NoCall
    /\ UNCHANGED <<ctorVars, envVars, stepVars, progVars, now, nOps>>

\* act() raises (jobs.py 238, 182-183).
ActRaise(cls, hasArgs) ==
    /\ pc = "act"
    /\ stack = <<>>
    /\ flying = Nothing
    /\ ActEnds(Raise(cls, hasArgs), status)
    /\ NoCall
    /\ UNCHANGED <<ctorVars, envVars, stepVars, progVars, now, nOps>>

\* run(): the except or else clause that matches (jobs.py 239-250).
Classify ==
    /\ pc = "classify"
    /\ LET c == run_except(exc, status)
       IN /\ ApplyClause(c)
          /\ pending' = ClauseRaises(c)
    /\ pc' = "hooks"
    /\ UNCHANGED <<ctorVars, envVars, stepVars, progVars, now, nOps, exc, escaped, actOutcome, actExc,
                   statusAtActEnd, cancelBeforeAck, runStart, actCalls, onSuccessCalls,
                   onFailureCalls, finalizeCalls, hookRaised, hookExc>>

\* on_failure is tested with `else`: every status that is not good is bad.
process_post_job_hooks_else(st, sr, fr) ==
    LET callS == st \in GOOD_STATUSES
        callF == ~callS
    IN [on_success |-> callS, on_failure |-> callF,
        raised |-> IF callS THEN sr ELSE fr]

\* The try block of _process_post_job_hooks (jobs.py 259-263) for the status st:
\* which hooks are called and the exception one raised (NoExc: none); sr, fr:
\* what on_success, on_failure raise when called.  A raising on_success skips the
\* test for on_failure.
process_post_job_hooks(st, sr, fr) ==
    LET callS == st \in GOOD_STATUSES
        raisedS == IF callS THEN sr ELSE NoExc
        callF == raisedS = NoExc /\ st \in BAD_STATUSES
        raisedF == IF callF THEN fr ELSE NoExc
    IN [on_success |-> callS, on_failure |-> callF,
        raised |-> IF raisedS # NoExc THEN raisedS ELSE raisedF]

\* What a hook of a subclass raises when called: nothing, an Exception, or a
\* BaseException that is not an Exception.
HookExceptions == {NoExc, "Exception"} \cup BaseExceptions

\* run(): the finally clause (jobs.py 251-256) with _process_post_job_hooks
\* (jobs.py 258-265); sr, fr, zr: what on_success, on_failure, finalize raise when
\* called.  The exception of finalize(), raised in the inner finally clause,
\* replaces the exception of the hook.
PostHooks(sr, fr, zr) ==
    /\ pc = "hooks"
    /\ LET h == process_post_job_hooks(status, sr, fr)
           e == IF zr # NoExc THEN zr ELSE h.raised
           c == run_finally(e)
       IN /\ onSuccessCalls' = onSuccessCalls + (IF h.on_success THEN 1 ELSE 0)
          /\ onFailureCalls' = onFailureCalls + (IF h.on_failure THEN 1 ELSE 0)
          /\ finalizeCalls' = finalizeCalls + 1
          /\ hookRaised' = (h.raised # NoExc)
          /\ hookExc' = e
          /\ ApplyClause(c)
          /\ escaped' = IF ClauseRaises(c) # NoExc THEN ClauseRaises(c) ELSE pending
    /\ pc' = "done"
    /\ UNCHANGED <<ctorVars, envVars, stepVars, progVars, now, nOps, exc, pending, actOutcome, actExc,
                   statusAtActEnd, cancelBeforeAck, runStart, actCalls>>

\* ------------------------------------------------------------------ expiry
\* job.created_at: None until the row is inserted, then the time of the insert
\* (auto_now_add, jobs.py 97), which no later save or refresh changes.
created_at == [set |-> db.exists, at |-> db.created_at]

\* The comparison is strict: expired only after created_at + ttl.
has_expired_strictly_after(c, t) ==
    IF ~c.set
    THEN [raised |-> "TypeError", value |-> FALSE]
    ELSE [raised |-> NoExc, value |-> now > c.at + t]

\* has_expired (jobs.py 188-190): not (now() < created_at + timedelta(seconds=ttl));
\* None + timedelta is a TypeError.
has_expired(c, t) ==
    IF ~c.set
    THEN [raised |-> "TypeError", value |-> FALSE]
    ELSE [raised |-> NoExc, value |-> ~(now < c.at + t)]

\* is_stale (jobs.py 192-194).
is_stale(c, t) == has_expired(c, t)

\* ------------------------------------------- progress (AbstractProgressJobMixin)
\* The units tried with add_progress_total_units and add_progress_done_units, and
\* the values tried with the percent_progress setter.
Units == {-1, 4, 6, 10}
PercentArgs == {-1, 0, 40, 100, 101}

jobVars == <<status, ui_status, updated_at, ui_explicit>>
opVars == <<opCalls, opRaised, opStatus>>

\* add_progress_total_units (mixins.py 22-23).
add_progress_total_units(p, units) == [p EXCEPT !.total = @ + units]

\* add_progress_done_units (mixins.py 25-28): the count grows, then notify() is
\* called directly when asked.
add_progress_done_units(j, units, notify_) ==
    LET j1 == [j EXCEPT !.progress.done = @ + units]
    IN IF notify_
       THEN LET n == notify(j1, db) IN Outcome(n.job, n.db, n.calls, n.raised, 1)
       ELSE Outcome(j1, db, <<>>, Nothing, 0)

\* remaining_progress_units (mixins.py 30-32).
remaining_progress_units(p) == p.total - p.done

\* The value of a true division n / d, kept as the fraction.
Ratio(n, d) == [num |-> n, den |-> d]
\* Fraction r equals the integer n.
RatioEq(r, n) == r.num = n * r.den

\* The getter tests the unit count before the override.
percent_progress_units_first(p) ==
    IF p.total = 0 THEN Ratio(0, 1)
    ELSE IF p.percent.set THEN Ratio(p.percent.value, 1)
    ELSE Ratio(p.done * 100, p.total)

\* percent_progress getter (mixins.py 34-40): the override if it is not None, 0
\* without units, else (done * 100) / total by true division.
percent_progress(p) ==
    IF p.percent.set THEN Ratio(p.percent.value, 1)
    ELSE IF p.total = 0 THEN Ratio(0, 1)
    ELSE Ratio(p.done * 100, p.total)

\* The setter stores whatever it is given.
percent_progress_setter_unchecked(p, value) ==
    [progress |-> [p EXCEPT !.percent = [set |-> TRUE, value |-> value]],
     raised |-> Nothing]

\* percent_progress setter (mixins.py 42-45): assert 0 <= value <= 100, then
\* store.
percent_progress_setter(p, value) ==
    IF 0 <= value /\ value <= 100
    THEN [progress |-> [p EXCEPT !.percent = [set |-> TRUE, value |-> value]],
          raised |-> Nothing]
    ELSE [progress |-> p, raised |-> Raise("AssertionError", FALSE)]

\* The state after add_progress_done_units with outcome o: the count, and what
\* its notify() did; a row inserted by the save stamps updated_at.
ApplyProgress(o) ==
    /\ progress' = o.job.progress
    /\ updated_at' = o.job.updated_at
    /\ db' = o.db
    /\ notified' = notified \o o.calls
    /\ dispatches' = dispatches + o.dispatched
    /\ UNCHANGED <<status, ui_status, ui_explicit, opVars>>

\* One more add_progress_* call since percent_progress was assigned.
AddSince == IF lastSet.called THEN [lastSet EXCEPT !.since = @ + 1] ELSE lastSet

\* The job's owner calls add_progress_total_units.
AddTotalUnits(units) ==
    /\ pc = "idle"
    /\ nOps < MaxProgressOps
    /\ nOps' = nOps + 1
    /\ progress' = add_progress_total_units(progress, units)
    /\ lastSet' = AddSince
    /\ negUnits' = (negUnits \/ units < 0)
    /\ UNCHANGED <<jobVars, opVars, db, now, notified, dispatches, unitsAdded,
                   ctorVars, envVars, stepVars>>
    /\ UNCHANGED runVars

\* The job's owner calls add_progress_done_units.
AddDoneUnits(units, notify_) ==
    /\ pc = "idle"
    /\ nOps < MaxProgressOps
    /\ nOps' = nOps + 1
    /\ ApplyProgress(add_progress_done_units(Job, units, notify_))
    /\ unitsAdded' = unitsAdded + units
    /\ negUnits' = (negUnits \/ units < 0)
    /\ lastSet' = AddSince
    /\ UNCHANGED <<now, ctorVars, envVars, stepVars>>
    /\ UNCHANGED runVars

\* The job's owner assigns percent_progress.
SetPercentProgress(value) ==
    /\ pc = "idle"
    /\ nOps < MaxProgressOps
    /\ nOps' = nOps + 1
    /\ LET r == percent_progress_setter(progress, value)
       IN /\ progress' = r.progress
          /\ lastSet' = [called |-> TRUE, value |-> value,
                         raised |-> (r.raised.cls # NoExc),
                         before |-> progress.percent, since |-> 0]
    /\ UNCHANGED <<jobVars, opVars, db, now, notified, dispatches, unitsAdded, negUnits,
                   ctorVars, envVars, stepVars>>
    /\ UNCHANGED runVars

\* -------------------------------------------------- stage and step contexts
\* Severity (diagnostics.py 4-7).
Severity(name) ==
    CASE name = "INFO" -> 1
      [] name = "WARNING" -> 2
      [] name = "CRITICAL" -> 3

\* The stage and step names act() uses (GroupsetJob.Stage and GroupsetJob.Step,
\* rest_api/models.py 74-82), and what a block may raise: whatever act() may.
StageNames == {"GROUPS_UPADTE", "USERS_UPDATE", "CREATE_GROUPSET", "DELETE_GROUPSET"}
StepNames == {"ADD_USER", "REMOVE_USER"}
BlockExceptions == ActExceptions

\* str(e): the message the exception was raised with, or the empty string.
Str(e) == IF e.hasArgs THEN e.cls ELSE ""

\* **data of a context entered without keyword arguments: a dict without 'error'.
EmptyData == [isNone |-> FALSE, error |-> NoKey]

\* What the hooks and contexts work on: the tracker, the progress counts and the
\* job's diagnostics.
Self == [tracker |-> tracker, progress |-> progress, diagnostics |-> diagnostics]

\* The hooks of StepJobMixin (mixins.py 56-60, 91-107): each is `pass`.
on_step_success(self) == self
on_step_fail(self) == self
on_step_start(self) == self
on_step_end(self) == self
on_stage_start(self) == self
on_stage_end(self) == self
on_stage_success(self) == self
on_stage_fail(self) == self

\* What a context did with the outcome e of its block: the state after, the
\* hooks called, the exception leaving it, and the error text in the data when
\* the finally clause was reached.
Exited(self, calls, raised, recorded) ==
    [self |-> self, calls |-> calls, raised |-> raised, recorded |-> recorded]

\* step_context up to the yield (mixins.py 64-66).
step_context_enter(self, step) ==
    on_step_start([self EXCEPT !.tracker.current_step = step,
                               !.tracker.current_step_data = EmptyData])

\* The cleanup is in the else clause: a raising block skips it.
step_context_exit_no_finally(self, e) ==
    IF e.cls = NoExc
    THEN LET done == on_step_end(on_step_success(self))
         IN Exited([done EXCEPT !.tracker.current_step = None,
                                !.tracker.current_step_data = NoData],
                   <<"on_step_success", "on_step_end">>, Nothing,
                   self.tracker.current_step_data.error)
    ELSE IF ~IsException(e.cls)
    THEN Exited(self, <<>>, e, self.tracker.current_step_data.error)
    ELSE IF IsJobStateError(e.cls) /\ ~self.tracker.current_step_data.isNone
    THEN Exited(on_step_fail([self EXCEPT !.tracker.current_step_data.error = Str(e)]),
                <<"on_step_fail">>, e, Str(e))
    ELSE Exited(self, <<>>, Raise("AttributeError", TRUE),
                self.tracker.current_step_data.error)

\* step_context from the yield on (mixins.py 67-87) for the outcome e of the block
\* (NoExc: it completed).  A state error is recorded in current_step_data (None
\* after a nested step has exited: AttributeError), on_step_fail is called and
\* the error re-raised; for any other exception the clause reads
\* self.current_data, which no class defines: AttributeError.  A BaseException
\* that is not an Exception matches neither clause (mixins.py 69, 75) and goes on
\* as it is.  The finally clause calls on_step_end and clears the pointer and the
\* data.
step_context_exit(self, e) ==
    LET body ==
            IF e.cls = NoExc
            THEN Exited(on_step_success(self), <<"on_step_success">>, Nothing, NoKey)
            ELSE IF ~IsException(e.cls)
            THEN Exited(self, <<>>, e, NoKey)
            ELSE IF IsJobStateError(e.cls)
            THEN IF self.tracker.current_step_data.isNone
                 THEN Exited(self, <<>>, Raise("AttributeError", TRUE), NoKey)
                 ELSE Exited(on_step_fail(
                                [self EXCEPT !.tracker.current_step_data.error = Str(e)]),
                             <<"on_step_fail">>, e, NoKey)
            ELSE Exited(self, <<>>, Raise("AttributeError", TRUE), NoKey)
        ended == on_step_end(body.self)
    IN Exited([ended EXCEPT !.tracker.current_step = None,
                            !.tracker.current_step_data = NoData],
              Append(body.calls, "on_step_end"), body.raised,
              body.self.tracker.current_step_data.error)

\* stage_context up to the yield (mixins.py 111-113).
stage_context_enter(self, stage) ==
    on_stage_start([self EXCEPT !.tracker.current_stage = stage,
                                !.tracker.current_stage_data = EmptyData])

\* A stage_context that puts back the pointer of the enclosing stage when it is
\* left, as a stack of stages would.
stage_context_exit_restores(self, e) ==
    LET body ==
            IF e.cls = NoExc
            THEN Exited(on_stage_success(self), <<"on_stage_success">>, Nothing, NoKey)
            ELSE IF ~IsException(e.cls)
            THEN Exited(self, <<>>, e, NoKey)
            ELSE IF self.tracker.current_stage_data.isNone
            THEN Exited(self, <<>>, Raise("AttributeError", TRUE), NoKey)
            ELSE IF IsJobStateError(e.cls)
            THEN Exited(on_stage_fail(
                           [self EXCEPT !.tracker.current_stage_data.error = Str(e)]),
                        <<"on_stage_fail">>, Nothing, NoKey)
            ELSE Exited(on_stage_fail(
                           [self EXCEPT !.tracker.current_stage_data.error =
                                            "Something went wrong"]),
                        <<"on_stage_fail">>, e, NoKey)
        ended == on_stage_end(body.self)
        outer == SelectSeq(SubSeq(stack, 1, Len(stack) - 1),
                           LAMBDA f : f.kind = "stage")
    IN Exited([ended EXCEPT !.tracker.current_stage =
                                IF outer = <<>> THEN None ELSE outer[Len(outer)].name,
                            !.tracker.current_stage_data =
                                IF outer = <<>> THEN NoData ELSE EmptyData],
              Append(body.calls, "on_stage_end"), body.raised,
              body.self.tracker.current_stage_data.error)

\* stage_context from the yield on (mixins.py 114-133).  The clause for a state
\* error records it and calls on_stage_fail, and has no raise statement: the
\* error ends there.  Any other Exception is recorded as 'Something went wrong'
\* and re-raised.  A BaseException that is not an Exception matches neither
\* clause (mixins.py 116, 121): only the finally clause runs and it goes on.
stage_context_exit(self, e) ==
    LET body ==
            IF e.cls = NoExc
            THEN Exited(on_stage_success(self), <<"on_stage_success">>, Nothing, NoKey)
            ELSE IF ~IsException(e.cls)
            THEN Exited(self, <<>>, e, NoKey)
            ELSE IF self.tracker.current_stage_data.isNone
            THEN Exited(self, <<>>, Raise("AttributeError", TRUE), NoKey)
            ELSE IF IsJobStateError(e.cls)
            THEN Exited(on_stage_fail(
                           [self EXCEPT !.tracker.current_stage_data.error = Str(e)]),
                        <<"on_stage_fail">>, Nothing, NoKey)
            ELSE Exited(on_stage_fail(
                           [self EXCEPT !.tracker.current_stage_data.error =
                                            "Something went wrong"]),
                        <<"on_stage_fail">>, e, NoKey)
        ended == on_stage_end(body.self)
    IN Exited([ended EXCEPT !.tracker.current_stage = None,
                            !.tracker.current_stage_data = NoData],
              Append(body.calls, "on_stage_end"), body.raised,
              body.self.tracker.current_stage_data.error)

\* The innermost context act() is inside.
Top == stack[Len(stack)]

\* The state after a hook or context left self.
ApplySelf(self) ==
    /\ tracker' = self.tracker
    /\ progress' = self.progress
    /\ diagnostics' = self.diagnostics

\* act() enters `with self.stage_context(name):` or `with self.step_context(name):`.
EnterContext(kind, name) ==
    /\ pc = "act"
    /\ flying = Nothing
    /\ Len(stack) < MaxDepth
    /\ nCtx < MaxCtx
    /\ nCtx' = nCtx + 1
    /\ ApplySelf(IF kind = "stage" THEN stage_context_enter(Self, name)
                                   ELSE step_context_enter(Self, name))
    /\ stack' = Append(stack, [kind |-> kind, name |-> name])
    /\ lastExit' = NoExit
    /\ UNCHANGED <<flying, stepFailed, stepsCompleted, endCalls>>
    /\ UNCHANGED <<jobVars, opVars, db, now, notified, dispatches, nOps, ctorVars, envVars,
                   progVars>>
    /\ UNCHANGED runVars

EnterStage(stage) == EnterContext("stage", stage)
EnterStep(step) == EnterContext("step", step)

\* The block of the innermost context raises.
BlockRaise(cls, hasArgs) ==
    /\ pc = "act"
    /\ stack # <<>>
    /\ flying = Nothing
    /\ flying' = Raise(cls, hasArgs)
    /\ stepFailed' =
          IF cls = JobStepFailedError /\ Top.kind = "step"
          THEN [step |-> Top.name,
                inStage |-> (Len(stack) > 1 /\ stack[Len(stack) - 1].kind = "stage"),
                hasArgs |-> hasArgs]
          ELSE stepFailed
    /\ UNCHANGED <<tracker, stack, lastExit, stepsCompleted, nCtx, endCalls,
                   diagnostics, progress>>
    /\ UNCHANGED <<jobVars, opVars, db, now, notified, dispatches, nOps, ctorVars, envVars,
                   progVars>>
    /\ UNCHANGED runVars

\* The innermost context is left: its block completed, or an exception is
\* propagating through it.
ContextExit ==
    /\ pc = "act"
    /\ stack # <<>>
    /\ LET r == IF Top.kind = "stage" THEN stage_context_exit(Self, flying)
                                      ELSE step_context_exit(Self, flying)
           ends == Len(SelectSeq(r.calls,
                                 LAMBDA c : c \in {"on_stage_end", "on_step_end"}))
       IN /\ ApplySelf(r.self)
          /\ flying' = r.raised
          /\ lastExit' = [kind |-> Top.kind, name |-> Top.name, inExc |-> flying,
                          recorded |-> r.recorded, calls |-> r.calls,
                          outExc |-> r.raised]
          /\ endCalls' = endCalls + ends
    /\ stack' = SubSeq(stack, 1, Len(stack) - 1)
    /\ stepsCompleted' =
          IF Top.kind = "step" /\ flying = Nothing
          THEN stepsCompleted + 1 ELSE stepsCompleted
    /\ UNCHANGED <<stepFailed, nCtx>>
    /\ UNCHANGED <<jobVars, opVars, db, now, notified, dispatches, nOps, ctorVars, envVars,
                   progVars>>
    /\ UNCHANGED runVars

\* The exception leaves the outermost context and ends act().
ActEscapes ==
    /\ pc = "act"
    /\ stack = <<>>
    /\ flying # Nothing
    /\ ActEnds(flying, status)
    /\ flying' = Nothing
    /\ NoCall
    /\ UNCHANGED <<tracker, stack, lastExit, stepFailed, stepsCompleted, nCtx,
                   endCalls, diagnostics>>
    /\ UNCHANGED <<ctorVars, envVars, progVars, now, nOps>>

\* act() calls add_progress_done_units, inside or outside a context.
ActAddDoneUnits(units, notify_) ==
    /\ pc = "act"
    /\ flying = Nothing
    /\ nOps < MaxActOps
    /\ nOps' = nOps + 1
    /\ LET o == add_progress_done_units(Job, units, notify_)
       IN /\ ApplyProgress(o)
          /\ flying' = o.raised
    /\ unitsAdded' = unitsAdded + units
    /\ negUnits' = (negUnits \/ units < 0)
    /\ lastSet' = AddSince
    /\ UNCHANGED <<tracker, stack, lastExit, stepFailed, stepsCompleted, nCtx,
                   endCalls, diagnostics>>
    /\ UNCHANGED <<now, ctorVars, envVars>>
    /\ UNCHANGED runVars

\* A job that a worker runs: the owner's calls on the job before run(), run(),
\* act() calling operations of the job, time passing and another process storing
\* a cancel request.  The owner's calls and act()'s share one budget.
Next ==
    \/ Tick
    \/ SaveJob
    \/ ExternalLoad
    \/ ExternalUpdateStatus
    \/ ExternalSave
    \/ /\ nOps < MaxActOps
          /\ \/ \E op \in StatusOps, raise_error \in BOOLEAN : StatusOp(op, raise_error)
             \/ \E s \in JobStatus, ui \in UiArgs : UpdateStatus(s, ui)
             \/ Touch
             \/ \E ui \in UiStatusArgs : UpdateUiStatus(ui)
             \/ Refresh
             \/ Notify
    \/ RunAck
    \/ RunRefresh
    \/ RunCheck
    \/ \E op \in StatusOps, raise_error \in BOOLEAN : ActStatusOp(op, raise_error)
    \/ \E s \in JobStatus, ui \in UiArgs : ActUpdateStatus(s, ui)
    \/ ActTouch
    \/ \E ui \in UiStatusArgs : ActUpdateUiStatus(ui)
    \/ ActRefresh
    \/ ActReturn
    \/ \E cls \in ActExceptions, hasArgs \in BOOLEAN : ActRaise(cls, hasArgs)
    \/ Classify
    \/ \E sr \in HookExceptions, fr \in HookExceptions, zr \in HookExceptions :
          /\ sr = NoExc \/ status \in GOOD_STATUSES
          /\ fr = NoExc \/ status \in BAD_STATUSES
          /\ PostHooks(sr, fr, zr)

Spec == Init /\ [][Next]_vars

\* A job whose owner calls the status operations directly, without run().
NextOps ==
    \/ Tick
    \/ SaveJob
    \/ \E op \in StatusOps, raise_error \in BOOLEAN : StatusOp(op, raise_error)
    \/ \E s \in JobStatus, ui \in UiArgs : UpdateStatus(s, ui)
    \/ Touch
    \/ \E ui \in UiStatusArgs : UpdateUiStatus(ui)
    \/ Refresh
    \/ Notify

SpecOps == Init /\ [][NextOps]_vars

\* A job with two registered notifiers whose owner calls the status operations.
SpecRegistered == InitRegistered /\ [][NextOps]_vars

\* A step job that a worker runs: act() opens stage and step contexts, whose
\* blocks complete or raise, and reports done units.
NextSteps ==
    \/ RunAck
    \/ RunRefresh
    \/ RunCheck
    \/ \E stage \in StageNames : EnterStage(stage)
    \/ \E step \in StepNames : EnterStep(step)
    \/ \E cls \in BlockExceptions, hasArgs \in BOOLEAN : BlockRaise(cls, hasArgs)
    \/ ContextExit
    \/ ActEscapes
    \/ \E units \in Units, notify_ \in BOOLEAN : ActAddDoneUnits(units, notify_)
    \/ ActReturn
    \/ Classify
    \/ \E sr \in HookExceptions, fr \in HookExceptions, zr \in HookExceptions :
          /\ sr = NoExc \/ status \in GOOD_STATUSES
          /\ fr = NoExc \/ status \in BAD_STATUSES
          /\ PostHooks(sr, fr, zr)

SpecSteps == Init /\ [][NextSteps]_vars

\* A job constructed with any ttl, whose owner calls the status operations while
\* time passes.
SpecExpiry == InitTtl /\ [][NextOps]_vars

\* A progress job whose owner reports progress and reads it back.
NextProgress ==
    \/ \E units \in Units : AddTotalUnits(units)
    \/ \E units \in Units, notify_ \in BOOLEAN : AddDoneUnits(units, notify_)
    \/ \E value \in PercentArgs : SetPercentProgress(value)

SpecProgress == Init /\ [][NextProgress]_vars

\* ------------------------------------------------------------------ claims
RunDone == pc = "done"
RunReturned == pc = "done" /\ escaped = NoExc
HooksQuiet == hookExc = NoExc
\* The hook dispatch raised an Exception, which run() catches, or a BaseException
\* that is not one, which it does not.
HooksDemoted == hookExc # NoExc /\ IsException(hookExc)
HooksEscaped == hookExc # NoExc /\ ~IsException(hookExc)
ActRaised(classes) == actOutcome = "raised" /\ actExc \in classes

\* C1: when the stored status is CANCEL_REQUESTED as run() starts, run() never
\* invokes act() and the job's final status is CANCELED.
C1_CancelBeforeAckSkipsAct ==
    (RunReturned /\ cancelBeforeAck) => (actCalls = 0 /\ status = "CANCELED")

\* C2: when act() raises JobFailedError, JobStageFailedError or JobStepFailedError
\* (and no hook raises), nothing escapes run() and the job ends FAILED.
C2_FailureErrorsEndFailed ==
    (RunDone /\ HooksQuiet
        /\ ActRaised({JobFailedError, JobStageFailedError, JobStepFailedError}))
    => (escaped = NoExc /\ status = "FAILED")

\* C3 as stated: when act() returns with a status that is not terminal, run() ends
\* with SUCCESS; a terminal status left by act() is not overwritten with SUCCESS.
C3_ReturnEndsSuccess ==
    (RunDone /\ actOutcome = "returned")
    => /\ statusAtActEnd \notin FINAL_STATUSES => status = "SUCCESS"
       /\ statusAtActEnd \in FINAL_STATUSES \ {"SUCCESS"} => status # "SUCCESS"

\* C3 amended: when act() returns with a status that is not terminal, the else
\* clause sets SUCCESS; a terminal status left by act() is kept by it and never
\* overwritten with SUCCESS.  The run ends with that status, nothing leaving
\* run(), when the hook dispatch raises nothing.  When it raises, the exception
\* that leaves the dispatch decides (finalize's if finalize raises, else the
\* hook's): an Exception ends the run with SUCCESS_WITH_WARNING, nothing leaving
\* run(); a KeyboardInterrupt, SystemExit or GeneratorExit leaves run() and the
\* status is not demoted.
C3_ReturnEndsSuccessUnlessHookRaises ==
    /\ (pc = "hooks" /\ actOutcome = "returned")
       => status = (IF statusAtActEnd \in FINAL_STATUSES
                    THEN statusAtActEnd ELSE "SUCCESS")
    /\ (RunDone /\ actOutcome = "returned")
       => /\ escaped = (IF HooksEscaped THEN hookExc ELSE NoExc)
          /\ status = (IF HooksDemoted THEN "SUCCESS_WITH_WARNING"
                       ELSE IF statusAtActEnd \in FINAL_STATUSES
                       THEN statusAtActEnd ELSE "SUCCESS")

\* C3 witness: a run whose act() returned in RUNNING has ended with SUCCESS,
\* on_success called and nothing raised by the hook dispatch.
C3_Witness ==
    RunDone /\ actOutcome = "returned" /\ statusAtActEnd = "RUNNING"
        /\ onSuccessCalls = 1 /\ HooksQuiet /\ escaped = NoExc
        /\ status = "SUCCESS"

\* C4: when on_success or on_failure raises during run(), that exception does not
\* leave run() and the job's final status is SUCCESS_WITH_WARNING: what leaves
\* run() is what was already on its way out before the hooks ran (nothing, the
\* IndexError of an except clause, or a BaseException act() raised).
C4_HookFailureDemotes ==
    (RunDone /\ hookRaised)
    => /\ status = "SUCCESS_WITH_WARNING"
       /\ escaped = pending
       /\ escaped \in {NoExc, "IndexError"} \cup BaseExceptions

\* C5: finalize() has been invoked exactly once whenever a run() has ended.
C5_FinalizeExactlyOnce == RunDone => finalizeCalls = 1

\* C5, past acknowledge(): a run() whose acknowledge() returned invokes finalize()
\* exactly once, and no run() invokes it twice.
C5_FinalizeOnceAfterAcknowledge ==
    /\ finalizeCalls <= 1
    /\ (RunDone /\ notifiers.set) => finalizeCalls = 1

\* C6: ui_status is the mapped text of the current status unless the last
\* update_status was given a ui_status.
C6_UiStatusFollowsStatus == ~ui_explicit => ui_status = UiStatus(status)

\* C7: when act() raises JobCanceledError (with a message, and no hook raises),
\* nothing escapes run() and the job ends CANCELED.
C7_CanceledErrorEndsCanceled ==
    (RunDone /\ HooksQuiet /\ ActRaised({JobCanceledError}) /\ exc.hasArgs)
    => (escaped = NoExc /\ status = "CANCELED")

\* C8: when act() raises an exception that is not a JobStateError,
\* nothing escapes run() and the job ends ERRORED.
C8_OtherExceptionEndsErrored ==
    (RunDone /\ ActRaised({"NotImplementedError", "Exception"}))
    => (escaped = NoExc /\ status = "ERRORED")

\* C9: when act() raises a JobStateError of none of the four subclasses, the except
\* clause leaves the status as it was when act() raised.
C9_BaseStateErrorKeepsStatus ==
    (pc = "hooks" /\ ActRaised({JobStateError})) => status = statusAtActEnd

\* C10: every decorated status operation called so far, returned or raised, was
\* followed by exactly one dispatch, and each dispatch called notify(job) on every
\* registered notifier in registration order; the last one saw the status the
\* operation left.
C10_OneDispatchPerOperation ==
    [][opCalls' = opCalls + 1 =>
          /\ dispatches' = dispatches + 1
          /\ opStatus' = status'
          /\ notified' = notified \o
                [i \in 1..Len(notifiers.list) |-> <<notifiers.list[i], status'>>]]_vars

\* C10 witness: with an observer registered before the persisting notifier,
\* fail(raise_error=True) raised and its one dispatch notified both, the observer
\* first, each seeing FAILED, and the persisting notifier stored it.
C10_Witness ==
    /\ opRaised /\ opCalls = 1 /\ dispatches = 1
    /\ notifiers.list = <<"Observer", DbUpdateNotifier>>
    /\ notified = <<<<"Observer", "FAILED">>, <<DbUpdateNotifier, "FAILED">>>>
    /\ db.exists /\ db.status = "FAILED"

\* C11: a job constructed with a non-empty list of notifiers dispatches every
\* notification to exactly the notifiers of that list, in order, and the default
\* persisting notifier is registered when no notifiers are supplied.
C11_ExplicitNotifiersAreUsed ==
    /\ notifiersArg.none
       => (notifiers.set /\ notifiers.list = <<DbUpdateNotifier>>)
    /\ (~notifiersArg.none /\ notifiersArg.list # <<>>)
       => /\ Len(notified) = opCalls * Len(notifiersArg.list)
          /\ \A k \in 1..Len(notified) :
                notified[k][1]
                    = notifiersArg.list[((k - 1) % Len(notifiersArg.list)) + 1]

\* C12: request_cancel(), called on a job in any status, leaves the job in status
\* CANCEL_REQUESTED with ui_status 'Cancel requested' and does not raise.
C12_RequestCancelSetsCancelRequested ==
    [][(\E raise_error \in BOOLEAN : StatusOp("request_cancel", raise_error))
        => (status' = "CANCEL_REQUESTED" /\ ui_status' = "Cancel requested"
            /\ ~opRaised')]_vars

\* C17: percent_progress is the override when one is set; otherwise 0 when
\* total_units is 0 and done_units*100/total_units when it is not (40 for 4 of
\* 10, 100 when done = total > 0); remaining_units is total_units - done_units.
C17_PercentProgressValue ==
    LET p == percent_progress(progress)
        set == progress.percent.set
    IN /\ set => RatioEq(p, progress.percent.value)
       /\ (~set /\ progress.total = 0) => RatioEq(p, 0)
       /\ (~set /\ progress.total # 0)
          => p.num * progress.total = progress.done * 100 * p.den
       /\ (~set /\ progress.total = 10 /\ progress.done = 4) => RatioEq(p, 40)
       /\ (~set /\ progress.total > 0 /\ progress.done = progress.total)
          => RatioEq(p, 100)
       /\ progress.total = remaining_progress_units(progress) + progress.done

\* C17 witness: 10 total units, 4 then 6 done units reported, no override, and
\* percent_progress reads 100.
C17_Witness ==
    /\ progress.total = 10 /\ progress.done = 10 /\ unitsAdded = 10 /\ nOps = 3
    /\ ~progress.percent.set
    /\ RatioEq(percent_progress(progress), 100)

\* C18: an assignment of percent_progress outside 0..100 raises and leaves the
\* stored override as it was; one within 0..100 is what percent_progress reads
\* from then on, through every later add_progress_* call.
C18_PercentSetterValidatesAndPins ==
    lastSet.called
    => IF lastSet.value < 0 \/ lastSet.value > 100
       THEN lastSet.raised /\ progress.percent = lastSet.before
       ELSE ~lastSet.raised /\ percent_progress(progress) = Ratio(lastSet.value, 1)

\* C18 witness: 40 was assigned, units were added afterwards, and percent_progress
\* still reads 40 although the units say otherwise.
C18_Witness ==
    /\ lastSet.called /\ lastSet.value = 40 /\ lastSet.since >= 1
    /\ progress.total = 10 /\ progress.done = 10
    /\ percent_progress(progress) = Ratio(40, 1)

\* C19: for a stored job, has_expired is true exactly when now >= created_at + ttl
\* (so ttl = 0 with created_at in the past is expired) and is_stale equals it; an
\* expired job stays expired as time advances, and no operation deletes the row.
C19_ExpiredFromCreationPlusTtl ==
    /\ [](db.exists
          => LET h == has_expired(created_at, ttl)
             IN /\ h.raised = NoExc
                /\ h.value = (now >= db.created_at + ttl)
                /\ (ttl = 0 /\ db.created_at < now) => h.value
                /\ is_stale(created_at, ttl) = h)
    /\ [][db.exists
           => /\ db'.exists
              /\ db'.created_at = db.created_at
              /\ ttl' = ttl
              /\ has_expired(created_at, ttl).value
                 => (has_expired(created_at, ttl).value)']_vars

\* C19 witness: a job with ttl 0 stored in the past reads as expired and stale.
C19_Witness ==
    /\ db.exists /\ ttl = 0 /\ db.created_at < now /\ opCalls > 0
    /\ has_expired(created_at, ttl).value
    /\ is_stale(created_at, ttl).value

\* The fail hook and the end hook of a context of kind k.
FailHook(k) == IF k = "stage" THEN "on_stage_fail" ELSE "on_step_fail"
EndHook(k) == IF k = "stage" THEN "on_stage_end" ELSE "on_step_end"
\* The number of calls of hook h among calls.
Calls(h, calls) == Len(SelectSeq(calls, LAMBDA c : c = h))

\* C13: a stage_context or step_context left by a JobStateError has recorded the
\* error text in its data, called its fail hook, and re-raised the same error.
C13_StateErrorRecordedAndReraised ==
    (lastExit.kind # None /\ IsJobStateError(lastExit.inExc.cls))
    => /\ lastExit.recorded = Str(lastExit.inExc)
       /\ Calls(FailHook(lastExit.kind), lastExit.calls) = 1
       /\ lastExit.outExc = lastExit.inExc

\* C14: when a step_context nested in a stage_context of act() is left by a
\* JobStepFailedError (raised with a message, and no hook of run() raises), run()
\* ends with status FAILED, not SUCCESS.
C14_StepFailureEndsFailed ==
    (RunDone /\ HooksQuiet /\ stepFailed.inStage /\ stepFailed.hasArgs)
    => (status = "FAILED" /\ status # "SUCCESS")

\* C15: every context entered and left, whatever the outcome of its block, has
\* called its end hook exactly once, and its pointer and data are None afterwards.
C15_EndHookOnceAndPointerCleared ==
    /\ endCalls + Len(stack) = nCtx
    /\ lastExit.kind # None
       => Calls(EndHook(lastExit.kind), lastExit.calls) = 1
    /\ lastExit.kind = "step"
       => (tracker.current_step = None /\ tracker.current_step_data = NoData)
    /\ lastExit.kind = "stage"
       => (tracker.current_stage = None /\ tracker.current_stage_data = NoData)

\* C15 witness: a step left by an exception that is not a state error has called
\* on_step_end and cleared its pointer.
C15_Witness ==
    /\ lastExit.kind = "step" /\ lastExit.inExc.cls = "Exception"
    /\ lastExit.calls = <<"on_step_end">>
    /\ tracker.current_step = None

\* C16: done_units has grown by one for every step_context whose block
\* completed normally, on top of the units act() added itself.
C16_StepCompletionAddsOneUnit == progress.done = unitsAdded + stepsCompleted


\* C20: when act() ends by raising JobStepFailedError from a step, a diagnostic of
\* severity CRITICAL tagged with that step exists when run() has finished.
C20_StepFailureLeavesCriticalDiagnostic ==
    (RunDone /\ actExc = JobStepFailedError /\ stepFailed.step # None)
    => \E d \in diagnostics :
          d.severity = Severity("CRITICAL") /\ d.step = stepFailed.step

\* C21: once status is a terminal status, no later step changes it, within run()
\* after the classification included.
C21_TerminalStatusIsAbsorbing ==
    [][(status \in FINAL_STATUSES) => (status' = status)]_vars

\* The ui_status argument of the update_status call this step made, read off the
\* state it left: the stored text when one was given, else the omitted argument.
UiArgOfStep == IF ui_explicit' THEN ui_status' ELSE NoUi

\* C22: update_status is idempotent on status and ui_status: after a call with
\* arguments (s, ui), a second call with the same arguments leaves both as the
\* first call left them; every call sets updated_at to the current time, which is
\* never before the value it replaces.
C22_UpdateStatusIdempotent ==
    [][LET s == status'
           ui == UiArgOfStep
       IN UpdateStatus(s, ui) =>
             LET once == [status |-> status', ui_status |-> ui_status',
                          updated_at |-> updated_at', ui_explicit |-> ui_explicit',
                          progress |-> progress']
                 twice == update_status(once, s, ui)
             IN /\ twice.status = once.status
                /\ twice.ui_status = once.ui_status
                /\ once.updated_at = At(now)
                /\ updated_at.set => once.updated_at.at >= updated_at.at
                /\ twice.updated_at.at >= once.updated_at.at]_vars

\* C22 witness: update_status(RUNNING) was called twice, the second time after
\* the clock advanced: the status and ui_status are those of the first call and
\* updated_at is the time of the second.
C22_Witness ==
    /\ nOps = 2 /\ opCalls = 0
    /\ status = "RUNNING" /\ ui_status = UiStatus("RUNNING")
    /\ updated_at = At(1) /\ now = 1

\* The notifier calls since run() was called: none before it, and afterwards
\* those that follow what the owner's earlier calls had notified.
RunNotified ==
    IF pc = "idle" THEN <<>>
    ELSE SubSeq(notified, runStart.notified + 1, Len(notified))

\* The number of notifier calls of the run so far that saw a terminal status.
TerminalNotifications ==
    Cardinality({k \in 1..Len(RunNotified) : RunNotified[k][2] \in FINAL_STATUSES})

\* The operations act() has called so far.
ActOps == nOps - runStart.nOps

\* REQUEST_ACK is the first notification of the run, and act() is invoked only
\* after RUNNING was stored and notified, as its second notification.
AckThenRunningThenAct ==
    /\ RunNotified # <<>> => RunNotified[1] = <<DbUpdateNotifier, "REQUEST_ACK">>
    /\ actCalls > 0 =>
          /\ Len(RunNotified) >= 2
          /\ RunNotified[2] = <<DbUpdateNotifier, "RUNNING">>

\* C23 as stated: REQUEST_ACK is notified first, act() is invoked only after
\* RUNNING was stored and notified, and no terminal status is notified until
\* act() has returned or raised, or was skipped for cancellation.
C23_TerminalNotifiedAfterAct ==
    /\ AckThenRunningThenAct
    /\ pc \in {"idle", "check", "checked", "act"} => TerminalNotifications = 0

\* C23 amended: REQUEST_ACK is notified first; act() is invoked only after
\* RUNNING was stored and notified; run() itself notifies no terminal status until
\* act() has returned or raised or was skipped: while act() executes, the only
\* terminal notifications are those of the status operations act() calls.
C23_NotificationOrder ==
    /\ RunNotified # <<>> => RunNotified[1] = <<DbUpdateNotifier, "REQUEST_ACK">>
    /\ actCalls > 0 =>
          /\ Len(RunNotified) >= 2
          /\ RunNotified[2] = <<DbUpdateNotifier, "RUNNING">>
    /\ pc \in {"idle", "check", "checked"} => TerminalNotifications = 0
    /\ pc = "act" => TerminalNotifications <= ActOps

\* C23 witness: act() called fail(raise_error=False) and returned: observers saw
\* REQUEST_ACK, RUNNING, then the FAILED that act() stored, and nothing after it.
C23_Witness ==
    /\ RunReturned /\ actOutcome = "returned" /\ ActOps = 1
    /\ RunNotified = <<<<DbUpdateNotifier, "REQUEST_ACK">>,
                    <<DbUpdateNotifier, "RUNNING">>,
                    <<DbUpdateNotifier, "FAILED">>>>

\* The status run() gives a job whose act() ended with exception e (NoExc: it
\* returned) in status st, read off act()'s outcome alone.
StatusByActOutcome(e, st) ==
    CASE e.cls = NoExc -> IF st \in FINAL_STATUSES THEN st ELSE "SUCCESS"
      [] e.cls \in {JobFailedError, JobStageFailedError, JobStepFailedError,
                    JobCanceledError} ->
            IF e.hasArgs /\ st # (IF e.cls = JobCanceledError THEN "CANCELED" ELSE "FAILED")
            THEN "FAILED"
            ELSE st
      [] e.cls \in BaseExceptions -> st
      [] OTHER -> "ERRORED"

\* C24: run() refreshes the job from the store once, after acknowledge and before
\* RUNNING, and never again; whatever another actor stores while act() executes,
\* a cancel request included, act() ends by returning or by raising its own
\* exception, and the status run() ends with is the one act()'s outcome gives,
\* demoted to SUCCESS_WITH_WARNING only by a hook raising an Exception.
C24_CancelCheckedOnce ==
    /\ refreshes <= 1
    /\ pc \in {"idle", "check"} => refreshes = 0
    /\ (pc \in {"checked", "act", "classify", "hooks"} \/ actCalls > 0) => refreshes = 1
    /\ (actCalls > 0 /\ pc \in {"classify", "hooks", "done"}) =>
          /\ actOutcome \in {"returned", "raised"}
          /\ exc.cls = actExc
    /\ (actCalls > 0 /\ pc = "hooks") => status = StatusByActOutcome(exc, statusAtActEnd)
    /\ (actCalls > 0 /\ pc = "done") =>
          status = IF HooksDemoted THEN "SUCCESS_WITH_WARNING"
                   ELSE StatusByActOutcome(exc, statusAtActEnd)

\* C24 witness: another process saved its cancel request while act() was
\* executing; act() went on and returned in RUNNING, never having seen it, and
\* run() returned with SUCCESS stored over the request after its single refresh.
C24_Witness ==
    /\ other.pc = "saved" /\ other.duringAct
    /\ RunReturned /\ HooksQuiet
    /\ actOutcome = "returned" /\ statusAtActEnd = "RUNNING"
    /\ refreshes = 1 /\ status = "SUCCESS" /\ db.status = "SUCCESS"

\* C25: in the post-hook phase of run(), on_success is called only when the
\* classified status is SUCCESS or SUCCESS_WITH_WARNING, on_failure only when it is
\* FAILED or ERRORED, neither when it is CANCELED, and a run() never calls both.
C25_HooksFollowClassifiedStatus ==
    /\ [](onSuccessCalls + onFailureCalls <= 1)
    /\ [][pc = "hooks" =>
            /\ onSuccessCalls' > onSuccessCalls
                  => status \in {"SUCCESS", "SUCCESS_WITH_WARNING"}
            /\ onFailureCalls' > onFailureCalls => status \in {"FAILED", "ERRORED"}
            /\ status = "CANCELED"
                  => (onSuccessCalls' = onSuccessCalls /\ onFailureCalls' = onFailureCalls)]_vars

\* C25 witness: a run() whose act() raised JobFailedError was classified FAILED
\* and called on_failure, not on_success.
C25_Witness ==
    /\ RunReturned /\ HooksQuiet /\ ActRaised({JobFailedError})
    /\ status = "FAILED" /\ onFailureCalls = 1 /\ onSuccessCalls = 0

\* C26: a call of update_status changes nothing but status, ui_status and
\* updated_at: ttl, the creation time and the rest of the stored row, the progress
\* fields and the stage/step pointers stay as they were, and no notification is
\* dispatched.
C26_UpdateStatusTouchesOnlyStatusFields ==
    [][UpdateStatus(status', UiArgOfStep) =>
             /\ ttl' = ttl
             /\ db' = db
             /\ progress' = progress
             /\ tracker' = tracker
             /\ notifiers' = notifiers
             /\ dispatches' = dispatches
             /\ notified' = notified]_vars

\* C26 witness: update_status(SUCCESS) was called directly on a fresh job: the
\* status changed, nothing was dispatched and no row was stored.
C26_Witness ==
    /\ nOps = 1 /\ opCalls = 0 /\ status = "SUCCESS" /\ ui_status = UiStatus("SUCCESS")
    /\ dispatches = 0 /\ notified = <<>> /\ ~db.exists
    /\ ttl = DEFAULT_TTL_THRESHOLD /\ progress = NoProgress /\ tracker = StepJobMixinInit

\* The pointer the tracker keeps for contexts of one kind.
Pointer(kind) ==
    IF kind = "stage" THEN tracker.current_stage ELSE tracker.current_step

\* C27: the tracker has one slot per kind and no stack: right after a context is
\* entered, nested or not, the pointer of its kind names it; once a context was
\* left the pointer of its kind is none, also while an enclosing context of the
\* same kind is still executing: the outer name is not put back.
C27_SingleSlotTracking ==
    /\ (stack # <<>> /\ lastExit = NoExit) => Pointer(Top.kind) = Top.name
    /\ lastExit.kind # None => Pointer(lastExit.kind) = None
    /\ lastExit.kind = "stage" => tracker.current_stage_data = NoData
    /\ lastExit.kind = "step" => tracker.current_step_data = NoData

\* C27 witness: a stage entered inside the stage USERS_UPDATE was left while the
\* outer stage is still executing, and the stage pointer is none.
C27_Witness ==
    /\ pc = "act"
    /\ stack = <<[kind |-> "stage", name |-> "USERS_UPDATE"]>>
    /\ lastExit.kind = "stage" /\ lastExit.name = "GROUPS_UPADTE"
    /\ tracker.current_stage = None

\* C28: a context that was left has called, after its start hook, exactly one of
\* its success and fail hooks and then its end hook: the success hook when its
\* block completed normally, the fail hook when its block raised.
C28_OneOutcomeHookThenEnd ==
    lastExit.kind # None =>
       LET k == lastExit.kind
           hook(h) == IF k = "stage" THEN "on_stage_" \o h ELSE "on_step_" \o h
       IN lastExit.calls =
             IF lastExit.inExc = Nothing
             THEN <<hook("success"), hook("end")>>
             ELSE <<hook("fail"), hook("end")>>

\* C29: whenever run() returns to its caller, the status is a terminal status,
\* whatever act() did.
C29_ReturnedRunIsTerminal == RunReturned => status \in FINAL_STATUSES

\* C29 witness: act() stored PAUSED and returned; run() returned with SUCCESS.
C29_Witness ==
    /\ RunReturned /\ actOutcome = "returned"
    /\ statusAtActEnd = "PAUSED" /\ status = "SUCCESS"

\* C30: no exception raised by act() escapes run(), whatever its class and
\* arguments (a JobStateError subclass raised with no message included), when the
\* notifiers and the hooks do not raise.
C30_NoActExceptionEscapes ==
    (RunDone /\ actOutcome = "raised" /\ HooksQuiet /\ notifiers.set)
    => escaped = NoExc

\* C33: after any sequence of add_progress_total_units and add_progress_done_units
\* calls with non-negative units and of accepted percent_progress assignments,
\* percent_progress is between 0 and 100 inclusive.
C33_PercentProgressWithinBounds ==
    ~negUnits =>
       LET p == percent_progress(progress)
       IN p.den > 0 /\ 0 <= p.num /\ p.num <= 100 * p.den

\* C31: whenever the block of a step_context raised, a state error or any other
\* exception, the context called on_step_fail exactly once, before on_step_end,
\* and the exception that left the context is the one the block raised.
C31_StepFailHookAndSameException ==
    (lastExit.kind = "step" /\ lastExit.inExc # Nothing)
    => /\ Len(SelectSeq(lastExit.calls, LAMBDA c : c = "on_step_fail")) = 1
       /\ lastExit.calls[Len(lastExit.calls)] = "on_step_end"
       /\ lastExit.outExc = lastExit.inExc

\* C32: a run() whose act() raised does not end in a good status: when run() is
\* over and act() raised, the status is neither SUCCESS nor SUCCESS_WITH_WARNING.
C32_RaisingActNeverEndsGood ==
    (RunDone /\ actOutcome = "raised")
    => status \notin {"SUCCESS", "SUCCESS_WITH_WARNING"}

====
